---- MODULE Spec2Model ----
(***************************************************************************)
(* Model of the statistical-arbitrage core of strata:                      *)
(*   - BacktestService.run_backtest  (backend/app/services/                *)
(*     backtest_service.py) with its endpoint backtest_pairs, once and     *)
(*     repeated under a moving clock;                                      *)
(*   - CointegrationService.find_pairs (backend/app/services/              *)
(*     cointegration.py) with the endpoints analyze_pairs / get_pairs;     *)
(*   - CointegrationService.prepare_data and get_spread_series with the    *)
(*     endpoint get_spread;                                                *)
(*   - the signal loop of run_backtest as a function of its z-score list;  *)
(*   - CointegrationService.calculate_spread_metrics for an accepted pair; *)
(*   - the sensitivity grid search of section 4.5 of the specification.    *)
(* Each part has its own variables and its own specification.              *)
(*                                                                         *)
(* Floating-point values are modelled as pairs <<n, d>> with d >= 0:       *)
(* d > 0 is the rational n/d, <<1,0>> is +inf, <<-1,0>> is -inf and        *)
(* <<0,0>> is NaN, with the IEEE rules for comparison (every comparison    *)
(* with NaN is false) and for division by zero.                            *)
(***************************************************************************)
EXTENDS Integers, Sequences, FiniteSets, TLC

VARIABLES
    \* ---- run_backtest (one request) --------------------------------
    bt_pc,          \* position of the request in run_backtest
    request,        \* BacktestRequest: entry_z, exit_z, stop_loss_z, lookback_window
    df1_height,     \* df1.height
    df2_height,     \* df2.height
    height,         \* df.height (after the join, then after drop_nulls)
    c1,             \* column c1 of the rows that survive the rolling trim
    c2,             \* column c2 of the rows that survive the rolling trim
    hedge_ratio,    \* static hedge ratio (OLS slope)
    i,              \* loop index of the signal loop
    z,              \* z_scores[i] last read by the loop
    position,       \* 0 flat, 1 long spread, -1 short spread
    signals,        \* signals[0..i-1]
    response,       \* the BacktestResponse, or NoResponse
    in_band,        \* (history) every z-score read so far was within +-entry_z
    \* ---- find_pairs (background scans) and get_pairs ----------------
    table,          \* committed rows of CointegratedPair, in insertion order
    sc_pc,          \* per scan: position in run_analysis_task / find_pairs
    sc_n,           \* per scan: len(available_tickers)
    sc_len,         \* per scan: rows of the aligned matrix, len(s1)
    sc_i,           \* per scan: outer loop index (columns numbered from 1)
    sc_j,           \* per scan: inner loop index
    sc_p,           \* per scan: p_value of the pair tested last, or NoValue
    sc_pending,     \* per scan: rows added to the session, not yet committed
    sc_found,       \* per scan: pairs_found
    sc_before,      \* per scan (history): the table when the scan began
    sc_alone,       \* per scan (history): no other scan wrote during it
    last_read,      \* rows the last get_pairs returned
    read_during,    \* (history) scans that were in progress at that read
    \* ---- run_sensitivity_grid (one request) -------------------------
    gr_pc,          \* position of the request in the grid search
    entry_range,    \* (min, max, step) of entry_z, in halves
    exit_range,     \* (min, max, step) of exit_z, in halves
    gr_entry,       \* entry_z of the cell visited next, in halves
    gr_exit,        \* exit_z of the cell visited next, in halves
    sensitivity,    \* the SensitivityPoints recorded so far
    gr_data,        \* the pair's data: z-scores, closes, hedge ratio, stop_loss_z
    \* ---- run_backtest called again: the clock and the price store ----
    stored,         \* per ticker: first and last trade_date of its DailyPrice rows
    today,          \* date.today(), as a day number
    rp_pc,          \* per invocation: position in run_backtest
    rp_request,     \* per invocation: the BacktestRequest
    start_date,     \* per invocation: start_date (line 63)
    rp_result,      \* per invocation: outcome and the dates of the response
    \* ---- prepare_data (one call) ------------------------------------
    al_pc,          \* position of the call
    daily_prices,   \* DailyPrice: per (trade_date, symbol) no row, or adjusted_close
    df_pivot,       \* the frame prepare_data returns
    \* ---- get_spread / get_spread_series (one request) ----------------
    sp_pc,          \* position of the request, then its outcome
    sp_width,       \* df.width: 0 (empty frame), or date + symbols with rows
    sp_rows,        \* rows of the aligned frame
    sp_std,         \* metrics["spread_std"]
    sp_dev,         \* spread - mean of the first row
    sp_data,        \* the list get_spread_series returns
    \* ---- the signal loop of run_backtest over a whole z-score list ----
    lp_pc,          \* position of the run: before, in or after the loop
    lp_request,     \* BacktestRequest: entry_z, exit_z, stop_loss_z
    z_scores,       \* z_scores, the list the loop reads
    lp_i,           \* loop index i
    lp_position,    \* position
    lp_signals,     \* signals, preallocated with zeros
    \* ---- calculate_spread_metrics for an accepted pair ----------------
    sm_pc,          \* position of the call, then of find_pairs after it
    sm_beta,        \* beta = hl_model.params[1], the slope of dz on z_lag
    sm_half_life,   \* half_life
    sm_pair         \* the CointegratedPair added to the session, or NoPair

bt_vars == <<bt_pc, request, df1_height, df2_height, height, c1, c2,
             hedge_ratio, i, z, position, signals, response, in_band>>

sc_vars == <<table, sc_pc, sc_n, sc_len, sc_i, sc_j, sc_p, sc_pending,
             sc_found, sc_before, sc_alone, last_read, read_during>>

gr_vars == <<gr_pc, entry_range, exit_range, gr_entry, gr_exit, sensitivity,
             gr_data>>

rp_vars == <<stored, today, rp_pc, rp_request, start_date, rp_result>>

al_vars == <<al_pc, daily_prices, df_pivot>>

sp_vars == <<sp_pc, sp_width, sp_rows, sp_std, sp_dev, sp_data>>

lp_vars == <<lp_pc, lp_request, z_scores, lp_i, lp_position, lp_signals>>

sm_vars == <<sm_pc, sm_beta, sm_half_life, sm_pair>>

\* what a step of each part leaves alone
not_bt_vars ==
    <<sc_vars, gr_vars, rp_vars, al_vars, sp_vars, lp_vars, sm_vars>>

not_sc_vars ==
    <<bt_vars, gr_vars, rp_vars, al_vars, sp_vars, lp_vars, sm_vars>>

not_gr_vars ==
    <<bt_vars, sc_vars, rp_vars, al_vars, sp_vars, lp_vars, sm_vars>>

not_rp_vars ==
    <<bt_vars, sc_vars, gr_vars, al_vars, sp_vars, lp_vars, sm_vars>>

not_al_vars ==
    <<bt_vars, sc_vars, gr_vars, rp_vars, sp_vars, lp_vars, sm_vars>>

not_sp_vars ==
    <<bt_vars, sc_vars, gr_vars, rp_vars, al_vars, lp_vars, sm_vars>>

not_lp_vars ==
    <<bt_vars, sc_vars, gr_vars, rp_vars, al_vars, sp_vars, sm_vars>>

not_sm_vars ==
    <<bt_vars, sc_vars, gr_vars, rp_vars, al_vars, sp_vars, lp_vars>>

vars == <<bt_pc, request, df1_height, df2_height, height, c1, c2,
          hedge_ratio, i, z, position, signals, response, in_band,
          table, sc_pc, sc_n, sc_len, sc_i, sc_j, sc_p, sc_pending,
          sc_found, sc_before, sc_alone, last_read, read_during,
          gr_pc, entry_range, exit_range, gr_entry, gr_exit, sensitivity,
          gr_data,
          stored, today, rp_pc, rp_request, start_date, rp_result,
          al_pc, daily_prices, df_pivot,
          sp_pc, sp_width, sp_rows, sp_std, sp_dev, sp_data,
          lp_pc, lp_request, z_scores, lp_i, lp_position, lp_signals,
          sm_pc, sm_beta, sm_half_life, sm_pair>>

----------------------------------------------------------------------------
(* Bounds of the model *)

\* largest number of rows a fetched series has
MaxRows == 51

\* largest |spread - rolling mean| drawn for an observation
MaxDev == 4

(* Program constants *)

\* minimum rows of each series and of the join (backtest_service.py:68, :78)
MIN_BACKTEST_ROWS == 50

\* largest number of columns (symbols) of an aligned matrix
MaxTickers == 3

\* minimum rows of the aligned matrix for a pair to be tested
\* (cointegration.py:157)
MIN_SCAN_ROWS == 30

\* the acceptance level 0.05 of the cointegration test, in hundredths
\* (cointegration.py:163)
ALPHA_PCT == 5

\* largest threshold of a grid range, in halves
MaxGrid == 3

\* the fetch window of run_backtest in days, 365*5 (backtest_service.py:63)
HORIZON_DAYS == 1825

\* number of days the clock passes through
MaxDays == 2

\* number of trade dates of the price table given to prepare_data
MaxDates == 3

\* largest number of observations of a z-score list given to the signal loop
MaxObs == 3

\* largest |numerator| of a slope of the half-life regression
MaxSlope == 3

\* the half-life of a spread that does not mean-revert (cointegration.py:75)
HALF_LIFE_SENTINEL == 9999

----------------------------------------------------------------------------
(* Floating point: <<n, d>>, d >= 0 *)

Sgn(x) == IF x > 0 THEN 1 ELSE IF x < 0 THEN -1 ELSE 0

NaN == <<0, 0>>

\* n/d with the sign carried by the numerator; x/0 is +-inf, 0/0 is NaN
Frac(n, d) ==
    IF d = 0 THEN <<Sgn(n), 0>>
    ELSE IF d < 0 THEN <<-n, -d>>
    ELSE <<n, d>>

Num(k) == <<k, 1>>

IsNaN(x) == x[1] = 0 /\ x[2] = 0

IsFinite(x) == x[2] > 0

Neg(x) == <<-x[1], x[2]>>

\* x < y; false when either is NaN
Lt(x, y) ==
    IF IsNaN(x) \/ IsNaN(y) THEN FALSE
    ELSE IF x[2] = 0 /\ y[2] = 0 THEN x[1] < y[1]
    ELSE x[1] * y[2] < y[1] * x[2]

Gt(x, y) == Lt(y, x)

\* x == y as floats; false when either is NaN
Eq(x, y) ==
    IF IsNaN(x) \/ IsNaN(y) THEN FALSE
    ELSE IF x[2] = 0 \/ y[2] = 0 THEN x = y
    ELSE x[1] * y[2] = y[1] * x[2]

Le(x, y) == Lt(x, y) \/ Eq(x, y)

Add(x, y) ==
    IF IsNaN(x) \/ IsNaN(y) THEN NaN
    ELSE IF x[2] = 0 /\ y[2] = 0 THEN (IF x[1] = y[1] THEN x ELSE NaN)
    ELSE IF x[2] = 0 THEN x
    ELSE IF y[2] = 0 THEN y
    ELSE <<x[1] * y[2] + y[1] * x[2], x[2] * y[2]>>

Sub(x, y) == Add(x, Neg(y))

Mul(x, y) == Frac(x[1] * y[1], x[2] * y[2])

Div(x, y) ==
    IF IsNaN(x) \/ IsNaN(y) THEN NaN
    ELSE Frac(x[1] * y[2] * (IF y[1] < 0 THEN -1 ELSE 1),
              x[2] * y[1] * (IF y[1] < 0 THEN -1 ELSE 1))

\* np.maximum: NaN if either operand is NaN
Maximum(x, y) ==
    IF IsNaN(x) \/ IsNaN(y) THEN NaN
    ELSE IF Lt(x, y) THEN y ELSE x

----------------------------------------------------------------------------
(* run_backtest: inputs *)

\* polars null (a missing cell; not NaN): a pair that is no float
Null == <<0, -1>>

NoResponse == "none"

\* heights of the two fetched series
Heights == (MIN_BACKTEST_ROWS - 1) .. MaxRows

\* requests: thresholds within the spec's inputs {entry_z > 0, exit_z >= 0,
\* stop_loss_z > entry_z} (entry 1/2 or 1, exit 0 or 1/8, stop 3/2), and a
\* lookback window that leaves a few rows of a series of about 50
Requests ==
    { [entry_z |-> <<e, 2>>, exit_z |-> <<x, 8>>, stop_loss_z |-> <<3, 2>>,
       lookback_window |-> w] :
        e \in {1, 2}, x \in {0, 1}, w \in {MIN_BACKTEST_ROWS - 1, MIN_BACKTEST_ROWS + 1} }

\* the closes (c1, c2) of one row
PriceRows == {<<1, 1>>, <<2, 1>>, <<1, 2>>}

HedgeRatios == {1, -2}

\* the z-score of the row whose window holds one older value followed by
\* lookback_window - 1 equal values: +-1/sqrt(lookback_window), which is
\* 1/7 for a window of 49 (and compares alike with every threshold of
\* Requests for a window of 51)
BeforeConstantWindow == {<<-1, 7>>, <<1, 7>>}

\* the z-score of one row: (spread - spread_mean) / spread_std, where the
\* rolling mean and std depend on the lookback_window - 1 earlier rows; a
\* zero std means the window is constant, so the deviation is zero too
ZInputs ==
    { <<dev, std>> \in ((-MaxDev) .. MaxDev) \X {0, 2} : std = 0 => dev = 0 }
        \cup BeforeConstantWindow

\* a row can have a constant window only if the row before it had one too
\* or saw a single older value in its window
MayFollow(in, prev, k) ==
    (in[2] = 0 /\ k > 0) => (IsNaN(prev) \/ prev \in BeforeConstantWindow)

ZScore(dev, std) == Div(Num(dev), Num(std))

----------------------------------------------------------------------------
(* run_backtest: the position state machine *)

\* (mutant) the entry tests with non-strict inequalities
NextPositionLooseEntry(pos, zz, req) ==
    IF pos = 0 THEN
        IF Le(zz, Neg(req.entry_z)) THEN 1
        ELSE IF Le(req.entry_z, zz) THEN -1
        ELSE 0
    ELSE IF pos = 1 THEN
        IF Gt(zz, Neg(req.exit_z)) \/ Lt(zz, Neg(req.stop_loss_z)) THEN 0 ELSE 1
    ELSE
        IF Lt(zz, req.exit_z) \/ Gt(zz, req.stop_loss_z) THEN 0 ELSE -1

\* (mutant) the exit tests with non-strict inequalities
NextPositionLooseExit(pos, zz, req) ==
    IF pos = 0 THEN
        IF Lt(zz, Neg(req.entry_z)) THEN 1
        ELSE IF Gt(zz, req.entry_z) THEN -1
        ELSE 0
    ELSE IF pos = 1 THEN
        IF Le(Neg(req.exit_z), zz) \/ Le(zz, Neg(req.stop_loss_z)) THEN 0 ELSE 1
    ELSE
        IF Le(zz, req.exit_z) \/ Le(req.stop_loss_z, zz) THEN 0 ELSE -1

\* (mutant) the three branches as successive ifs instead of if / elif: a
\* position entered by the first test is seen by the exit tests of the
\* same pass
NextPositionFallThrough(pos, zz, req) ==
    LET entered == IF pos = 0
                   THEN IF Lt(zz, Neg(req.entry_z)) THEN 1
                        ELSE IF Gt(zz, req.entry_z) THEN -1
                        ELSE 0
                   ELSE pos
        afterLong == IF entered = 1
                        /\ (Gt(zz, Neg(req.exit_z)) \/ Lt(zz, Neg(req.stop_loss_z)))
                     THEN 0 ELSE entered
    IN  IF afterLong = -1 /\ (Lt(zz, req.exit_z) \/ Gt(zz, req.stop_loss_z))
        THEN 0 ELSE afterLong

\* (mutant) stop and reverse: a position closed by a z-score beyond the
\* opposite entry threshold is reopened the other way in the same pass
NextPositionReversing(pos, zz, req) ==
    IF pos = 0 THEN
        IF Lt(zz, Neg(req.entry_z)) THEN 1
        ELSE IF Gt(zz, req.entry_z) THEN -1
        ELSE 0
    ELSE IF pos = 1 THEN
        IF Gt(zz, Neg(req.exit_z)) \/ Lt(zz, Neg(req.stop_loss_z))
        THEN (IF Gt(zz, req.entry_z) THEN -1 ELSE 0)
        ELSE 1
    ELSE
        IF Lt(zz, req.exit_z) \/ Gt(zz, req.stop_loss_z)
        THEN (IF Lt(zz, Neg(req.entry_z)) THEN 1 ELSE 0)
        ELSE -1

\* (mutant) no entry while the z-score is beyond the stop-loss threshold
NextPositionNoEntryBeyondStop(pos, zz, req) ==
    IF pos = 0 THEN
        IF Lt(zz, Neg(req.entry_z)) /\ ~Lt(zz, Neg(req.stop_loss_z)) THEN 1
        ELSE IF Gt(zz, req.entry_z) /\ ~Gt(zz, req.stop_loss_z) THEN -1
        ELSE 0
    ELSE IF pos = 1 THEN
        IF Gt(zz, Neg(req.exit_z)) \/ Lt(zz, Neg(req.stop_loss_z)) THEN 0 ELSE 1
    ELSE
        IF Lt(zz, req.exit_z) \/ Gt(zz, req.stop_loss_z) THEN 0 ELSE -1

\* (mutant) the long entry test with <=, the short one with >
NextPositionLongBiased(pos, zz, req) ==
    IF pos = 0 THEN
        IF Le(zz, Neg(req.entry_z)) THEN 1
        ELSE IF Gt(zz, req.entry_z) THEN -1
        ELSE 0
    ELSE IF pos = 1 THEN
        IF Gt(zz, Neg(req.exit_z)) \/ Lt(zz, Neg(req.stop_loss_z)) THEN 0 ELSE 1
    ELSE
        IF Lt(zz, req.exit_z) \/ Gt(zz, req.stop_loss_z) THEN 0 ELSE -1

\* lines 136-146, one pass of the loop body: the position after reading z
NextPosition(pos, zz, req) ==
    IF pos = 0 THEN
        IF Lt(zz, Neg(req.entry_z)) THEN 1
        ELSE IF Gt(zz, req.entry_z) THEN -1
        ELSE 0
    ELSE IF pos = 1 THEN
        IF Gt(zz, Neg(req.exit_z)) \/ Lt(zz, Neg(req.stop_loss_z)) THEN 0 ELSE 1
    ELSE
        IF Lt(zz, req.exit_z) \/ Gt(zz, req.stop_loss_z) THEN 0 ELSE -1

\* lines 126-148 as a function: position after the first k observations
RECURSIVE PositionAfter(_, _, _)
PositionAfter(zs, req, k) ==
    IF k = 0 THEN 0
    ELSE NextPosition(PositionAfter(zs, req, k - 1), zs[k], req)

\* lines 126-148 as a function: the list signals after the loop
RunLoop(zs, req) == [k \in 1 .. Len(zs) |-> PositionAfter(zs, req, k)]

----------------------------------------------------------------------------
(* run_backtest: PnL columns over the rows 1..Len(a) *)

SpreadCol(a, b, hr) == [t \in 1 .. Len(a) |-> a[t] - hr * b[t]]

\* spread - spread.shift(1): null on the first row
SpreadChange(spread) ==
    [t \in 1 .. Len(spread) |->
        IF t = 1 THEN Null ELSE Num(spread[t] - spread[t - 1])]

\* c1.pct_change().fill_null(0)
Ret1(a) ==
    [t \in 1 .. Len(a) |->
        IF t = 1 THEN Num(0) ELSE Frac(a[t] - a[t - 1], a[t - 1])]

CapitalInv(a, b, hr) == [t \in 1 .. Len(a) |-> a[t] + hr * b[t]]

\* (mutant) the position of the same row, not of the row before
UnlaggedPosition(sig) == [t \in 1 .. Len(sig) |-> sig[t]]

\* position.shift(1).fill_null(0)
LaggedPosition(sig) == [t \in 1 .. Len(sig) |-> IF t = 1 THEN 0 ELSE sig[t - 1]]

\* position(lag 1) * spread_change / capital_inv; null where spread_change is
StratRet(lagged, change, capital) ==
    [t \in 1 .. Len(change) |->
        IF change[t] = Null THEN Null
        ELSE Div(Mul(Num(lagged[t]), change[t]), Num(capital[t]))]

\* the rows df.drop_nulls() keeps: those with no null cell
KeptRows(change, rets) ==
    { t \in 1 .. Len(change) : change[t] # Null /\ rets[t] # Null }

\* a column restricted to the kept rows, in row order
RECURSIVE Compact(_, _, _)
Compact(col, keep, t) ==
    IF t > Len(col) THEN <<>>
    ELSE IF t \in keep THEN <<col[t]>> \o Compact(col, keep, t + 1)
    ELSE Compact(col, keep, t + 1)

\* (1 + r).cum_prod()
RECURSIVE CumProd(_)
CumProd(r) ==
    IF r = <<>> THEN <<>>
    ELSE LET front == CumProd(SubSeq(r, 1, Len(r) - 1))
             last  == Add(Num(1), r[Len(r)])
         IN  IF front = <<>> THEN <<last>>
             ELSE Append(front, Mul(front[Len(front)], last))

\* np.maximum.accumulate
RECURSIVE RunningMax(_)
RunningMax(eq) ==
    IF eq = <<>> THEN <<>>
    ELSE LET front == RunningMax(SubSeq(eq, 1, Len(eq) - 1))
         IN  IF front = <<>> THEN <<eq[1]>>
             ELSE Append(front, Maximum(front[Len(front)], eq[Len(eq)]))

\* (eq - running_max) / running_max
Drawdown(eq) ==
    LET running_max == RunningMax(eq)
    IN  [t \in 1 .. Len(eq) |-> Div(Sub(eq[t], running_max[t]), running_max[t])]

\* the sum of f[k] over k in 1..n
RECURSIVE SumTo(_, _)
SumTo(f, n) == IF n = 0 THEN 0 ELSE f[n] + SumTo(f, n - 1)

\* the product of f[k] over k in 1..n
RECURSIVE ProdTo(_, _)
ProdTo(f, n) == IF n = 0 THEN 1 ELSE f[n] * ProdTo(f, n - 1)

\* lines 196-199: mean / std * sqrt(252) of the daily returns when
\* np.std > 0, else 0.0.  The value is kept exactly as its sign and its
\* square 252 * mean^2 / var = 252 * S^2 / (n * Q - S^2), with S and Q the
\* sum and the sum of squares of the returns over a common denominator;
\* a return that is not finite makes np.std NaN, and NaN > 0 is false
Sharpe(r) ==
    LET n     == Len(r)
        den   == ProdTo([k \in 1 .. n |-> r[k][2]], n)
        scale == [k \in 1 .. n |-> r[k][1] * (den \div r[k][2])]
        S     == SumTo(scale, n)
        Q     == SumTo([k \in 1 .. n |-> scale[k] * scale[k]], n)
    IN  IF \E k \in 1 .. n : ~IsFinite(r[k])
        THEN [sign |-> 0, square |-> Num(0)]
        ELSE IF n * Q - S * S > 0
        THEN [sign |-> Sgn(S), square |-> Frac(252 * S * S, n * Q - S * S)]
        ELSE [sign |-> 0, square |-> Num(0)]

\* np.min: NaN if any element is NaN
RECURSIVE Minimum(_)
Minimum(col) ==
    IF Len(col) = 1 THEN col[1]
    ELSE LET rest == Minimum(SubSeq(col, 2, Len(col)))
         IN  IF IsNaN(col[1]) \/ IsNaN(rest) THEN NaN
             ELSE IF Lt(rest, col[1]) THEN rest ELSE col[1]

\* lines 202-204: wins / total_trades if total_trades > 0 else 0, where
\* NaN != 0 is true
WinRate(r) ==
    LET wins         == Cardinality({k \in 1 .. Len(r) : Gt(r[k], Num(0))})
        total_trades == Cardinality({k \in 1 .. Len(r) : ~Eq(r[k], Num(0))})
    IN  IF total_trades > 0 THEN Frac(wins, total_trades) ELSE Num(0)

\* lines 193 and 214-220: the metrics of a frame with at least one row
Metrics(rets, eq, hr) ==
    [total_return |-> Sub(eq[Len(eq)], Num(1)),
     sharpe_ratio |-> Sharpe(rets),
     max_drawdown |-> Minimum(Drawdown(eq)),
     win_rate     |-> WinRate(rets),
     hedge_ratio  |-> Num(hr)]

\* the response built at lines 150-221 from the columns; rows holds, for
\* each row of the response, its index among the observations of the loop;
\* an empty frame has no metrics (eq[-1] raises)
BuildResponse(a, b, hr, sig) ==
    LET change == SpreadChange(SpreadCol(a, b, hr))
        rets   == StratRet(LaggedPosition(sig), change, CapitalInv(a, b, hr))
        keep   == KeptRows(change, rets)
        kept   == Compact(rets, keep, 1)
        eq     == CumProd(kept)
    IN  [rows            |-> Compact([t \in 1 .. Len(a) |-> t], keep, 1),
         strat_ret       |-> kept,
         equity_curve    |-> eq,
         benchmark_curve |-> CumProd(Compact(Ret1(a), keep, 1)),
         drawdown        |-> Drawdown(eq),
         metrics         |-> IF eq = <<>> THEN [hedge_ratio |-> Num(hr)]
                             ELSE Metrics(kept, eq, hr),
         hedge_ratio     |-> hr]

----------------------------------------------------------------------------
(* run_backtest: the request, step by step *)

BtInit ==
    /\ bt_pc = "idle"
    /\ request = [entry_z |-> Num(2), exit_z |-> Num(0), stop_loss_z |-> Num(4),
                  lookback_window |-> 30]
    /\ df1_height = 0
    /\ df2_height = 0
    /\ height = 0
    /\ c1 = <<>>
    /\ c2 = <<>>
    /\ hedge_ratio = 0
    /\ i = 0
    /\ z = NaN
    /\ position = 0
    /\ signals = <<>>
    /\ response = NoResponse
    /\ in_band = TRUE

\* backtest_pairs receives a request; lines 63-66 fetch the two series
Fetch ==
    /\ bt_pc = "idle"
    /\ \E req \in Requests, h1 \in Heights, h2 \in Heights :
         /\ request' = req
         /\ df1_height' = h1
         /\ df2_height' = h2
    /\ bt_pc' = "fetched"
    /\ UNCHANGED <<height, c1, c2, hedge_ratio, i, z, position, signals, response,
                   in_band>>
    /\ UNCHANGED not_bt_vars

\* line 68
InsufficientSeries(h1, h2) == h1 < MIN_BACKTEST_ROWS \/ h2 < MIN_BACKTEST_ROWS

\* (mutant) an off-by-one overlap check
InsufficientOverlapOffByOne(h) == h < MIN_BACKTEST_ROWS - 1

\* line 78
InsufficientOverlap(h) == h < MIN_BACKTEST_ROWS

\* lines 68-79: the size checks around the inner join on date; the join
\* holds the common dates, at most as many as either series
Align ==
    /\ bt_pc = "fetched"
    /\ IF InsufficientSeries(df1_height, df2_height)
       THEN /\ bt_pc' = "value_error"
            /\ UNCHANGED height
       ELSE \E hj \in (MIN_BACKTEST_ROWS - 1) .. MaxRows :
              /\ hj <= df1_height /\ hj <= df2_height
              /\ height' = hj
              /\ bt_pc' = IF InsufficientOverlap(hj) THEN "value_error" ELSE "aligned"
    /\ UNCHANGED <<request, df1_height, df2_height, c1, c2, hedge_ratio, i, z,
                   position, signals, response, in_band>>
    /\ UNCHANGED not_bt_vars

\* rows left by drop_nulls after rolling_mean / rolling_std of window w
TrimmedHeight(h, w) == IF h - (w - 1) > 0 THEN h - (w - 1) ELSE 0

\* lines 84-131: hedge ratio, spread, rolling statistics, drop_nulls
Prepare ==
    /\ bt_pc = "aligned"
    /\ \E hr \in HedgeRatios : hedge_ratio' = hr
    /\ height' = TrimmedHeight(height, request.lookback_window)
    /\ i' = 0
    /\ position' = 0
    /\ signals' = <<>>
    /\ bt_pc' = "loop"
    /\ UNCHANGED <<request, df1_height, df2_height, c1, c2, z, response, in_band>>
    /\ UNCHANGED not_bt_vars

\* -entry_z <= z <= entry_z
InBand(zz, req) == Le(Neg(req.entry_z), zz) /\ Le(zz, req.entry_z)

\* lines 133-148: one iteration of the signal loop
LoopStep ==
    /\ bt_pc = "loop"
    /\ i < height
    /\ \E in \in ZInputs :
         /\ MayFollow(in, z, i)
         /\ z' = ZScore(in[1], in[2])
         /\ position' = NextPosition(position, ZScore(in[1], in[2]), request)
         /\ signals' = Append(signals, NextPosition(position, ZScore(in[1], in[2]), request))
         /\ in_band' = (in_band /\ InBand(ZScore(in[1], in[2]), request))
    /\ i' = i + 1
    /\ UNCHANGED <<bt_pc, request, df1_height, df2_height, height, c1, c2,
                   hedge_ratio, response>>
    /\ UNCHANGED not_bt_vars

\* line 150: the loop is over and signals becomes the column position; the
\* loop's local z is dead from here on
AttachSignals ==
    /\ bt_pc = "loop"
    /\ i = height
    /\ bt_pc' = "pnl"
    /\ z' = NaN
    /\ UNCHANGED <<request, df1_height, df2_height, height, c1, c2, hedge_ratio,
                   i, position, signals, response, in_band>>
    /\ UNCHANGED not_bt_vars

\* lines 160-221: PnL, equity curves, metrics; eq[-1] raises IndexError on
\* an empty frame, which backtest_pairs turns into HTTP 500.  The stored
\* closes are fixed before the request; the model draws them at the step
\* that first computes with them, which gives the same set of runs.
Finish ==
    /\ bt_pc = "pnl"
    /\ \E rows \in [1 .. height -> PriceRows] :
         LET a == [t \in 1 .. height |-> rows[t][1]]
             b == [t \in 1 .. height |-> rows[t][2]]
             r == BuildResponse(a, b, hedge_ratio, signals)
         IN  /\ c1' = a
             /\ c2' = b
             /\ IF r.equity_curve = <<>>
                THEN /\ bt_pc' = "internal_error"
                     /\ UNCHANGED response
                ELSE /\ bt_pc' = "done"
                     /\ response' = r
    /\ UNCHANGED <<request, df1_height, df2_height, height, hedge_ratio,
                   i, z, position, signals, in_band>>
    /\ UNCHANGED not_bt_vars

BtNext == Fetch \/ Align \/ Prepare \/ LoopStep \/ AttachSignals \/ Finish

----------------------------------------------------------------------------
(* find_pairs: inputs *)

\* the scans started by POST /statarb/analyze; each is a background task
\* with a session of its own
Scans == {1, 2}

NoValue == -1

\* p-values in hundredths: 0.01, 0.05 (the level itself) and 0.09
PValues == {1, ALPHA_PCT, 9}

\* what calculate_cointegration (statsmodels coint) does for a pair: it
\* returns a p-value or raises on a degenerate input
TestOutcomes ==
    {[raised |-> FALSE, p_value |-> p] : p \in PValues}
        \cup {[raised |-> TRUE, p_value |-> NoValue]}

\* what calculate_spread_metrics (two OLS fits) does: returns (FALSE) or
\* raises (TRUE)
MetricsRaise == BOOLEAN

InProgress(s) == sc_pc[s] \in {"deleted", "loop"}

----------------------------------------------------------------------------
(* find_pairs: one scan, step by step *)

ScInit ==
    /\ table = <<>>
    /\ sc_pc = [s \in Scans |-> "idle"]
    /\ sc_n = [s \in Scans |-> 0]
    /\ sc_len = [s \in Scans |-> 0]
    /\ sc_i = [s \in Scans |-> 0]
    /\ sc_j = [s \in Scans |-> 0]
    /\ sc_p = [s \in Scans |-> NoValue]
    /\ sc_pending = [s \in Scans |-> <<>>]
    /\ sc_found = [s \in Scans |-> 0]
    /\ sc_before = [s \in Scans |-> <<>>]
    /\ sc_alone = [s \in Scans |-> TRUE]
    /\ last_read = <<>>
    /\ read_during = {}

\* a write to the table by scan s: no other scan that has begun is alone
\* since it began
AloneAfterWrite(s) ==
    [o \in Scans |->
        IF o # s /\ sc_pc[o] \notin {"idle", "queued"} THEN FALSE ELSE sc_alone[o]]

\* analyze_pairs: the task is queued and the response returns at once
Analyze(s) ==
    /\ sc_pc[s] = "idle"
    /\ sc_pc' = [sc_pc EXCEPT ![s] = "queued"]
    /\ UNCHANGED <<table, sc_n, sc_len, sc_i, sc_j, sc_p, sc_pending, sc_found,
                   sc_before, sc_alone, last_read, read_during>>
    /\ UNCHANGED not_sc_vars

\* lines 135-136: delete every row and commit
DeleteAll(s) ==
    /\ sc_pc[s] = "queued"
    /\ sc_before' = [sc_before EXCEPT ![s] = table]
    /\ sc_alone' = [AloneAfterWrite(s) EXCEPT ![s] = TRUE]
    /\ table' = <<>>
    /\ sc_pc' = [sc_pc EXCEPT ![s] = "deleted"]
    /\ UNCHANGED <<sc_n, sc_len, sc_i, sc_j, sc_p, sc_pending, sc_found,
                   last_read, read_during>>
    /\ UNCHANGED not_sc_vars

\* lines 139-147: prepare_data; an empty frame returns 0 at once
PrepareData(s) ==
    /\ sc_pc[s] = "deleted"
    /\ \E n \in 0 .. MaxTickers, len \in {MIN_SCAN_ROWS - 1, MIN_SCAN_ROWS} :
         /\ sc_n' = [sc_n EXCEPT ![s] = n]
         /\ sc_len' = [sc_len EXCEPT ![s] = IF n = 0 THEN 0 ELSE len]
         /\ sc_pc' = [sc_pc EXCEPT ![s] = IF n = 0 THEN "done" ELSE "loop"]
    /\ sc_i' = [sc_i EXCEPT ![s] = 1]
    /\ sc_j' = [sc_j EXCEPT ![s] = 2]
    /\ UNCHANGED <<table, sc_p, sc_pending, sc_found, sc_before, sc_alone,
                   last_read, read_during>>
    /\ UNCHANGED not_sc_vars

\* range(i + 1, n) exhausted: the next i whose inner range is not empty
NextI(ii, jj, n) == IF jj < n THEN ii ELSE ii + 1

NextJ(ii, jj, n) == IF jj < n THEN jj + 1 ELSE ii + 2

\* the loops of lines 148-149 still have a pair (i, j) to visit
HasPair(s) == sc_i[s] < sc_j[s] /\ sc_j[s] <= sc_n[s]

\* (mutant) an off-by-one minimum
TooShortOffByOne(len) == len < MIN_SCAN_ROWS - 1

\* line 157
TooShort(len) == len < MIN_SCAN_ROWS

\* (mutant) the level itself is accepted
AcceptedInclusive(p) == p <= ALPHA_PCT

\* line 163
Accepted(p) == p < ALPHA_PCT

\* (mutant) the later column as ticker_1
PairRowSwapped(t1, t2, p) ==
    [ticker_1 |-> t2, ticker_2 |-> t1, p_value |-> p, is_active |-> TRUE]

\* lines 168-176
PairRow(t1, t2, p) ==
    [ticker_1 |-> t1, ticker_2 |-> t2, p_value |-> p, is_active |-> TRUE]

\* continue with the next pair
Advance(s) ==
    /\ sc_i' = [sc_i EXCEPT ![s] = NextI(sc_i[s], sc_j[s], sc_n[s])]
    /\ sc_j' = [sc_j EXCEPT ![s] = NextJ(sc_i[s], sc_j[s], sc_n[s])]
    /\ UNCHANGED sc_pc

\* an exception leaves find_pairs and run_analysis_task: the session closes
\* without a commit and its pending rows are discarded
Abort(s) ==
    /\ sc_pc' = [sc_pc EXCEPT ![s] = "failed"]
    /\ sc_pending' = [sc_pending EXCEPT ![s] = <<>>]
    /\ UNCHANGED <<sc_i, sc_j, sc_found>>

\* lines 150-178: one pass of the inner loop body
TestPair(s) ==
    /\ sc_pc[s] = "loop"
    /\ HasPair(s)
    /\ IF TooShort(sc_len[s])
       THEN /\ Advance(s)
            /\ UNCHANGED <<sc_p, sc_pending, sc_found>>
       ELSE \E out \in TestOutcomes :
              IF out.raised
              THEN /\ Abort(s)
                   /\ UNCHANGED sc_p
              ELSE /\ sc_p' = [sc_p EXCEPT ![s] = out.p_value]
                   /\ IF ~Accepted(out.p_value)
                      THEN /\ Advance(s)
                           /\ UNCHANGED <<sc_pending, sc_found>>
                      ELSE \E metrics_raise \in MetricsRaise :
                             IF metrics_raise
                             THEN Abort(s)
                             ELSE /\ sc_pending' =
                                       [sc_pending EXCEPT ![s] =
                                           Append(@, PairRow(sc_i[s], sc_j[s],
                                                             out.p_value))]
                                  /\ sc_found' = [sc_found EXCEPT ![s] = @ + 1]
                                  /\ Advance(s)
    /\ UNCHANGED <<table, sc_n, sc_len, sc_before, sc_alone, last_read, read_during>>
    /\ UNCHANGED not_sc_vars

\* lines 180-181: the pending rows are inserted by the one commit
Commit(s) ==
    /\ sc_pc[s] = "loop"
    /\ ~HasPair(s)
    /\ table' = table \o sc_pending[s]
    /\ sc_alone' = AloneAfterWrite(s)
    /\ sc_pending' = [sc_pending EXCEPT ![s] = <<>>]
    /\ sc_pc' = [sc_pc EXCEPT ![s] = "done"]
    /\ UNCHANGED <<sc_n, sc_len, sc_i, sc_j, sc_p, sc_found, sc_before,
                   last_read, read_during>>
    /\ UNCHANGED not_sc_vars

\* the rows select(...).where(is_active == True) returns
ActiveRows(t) == SelectSeq(t, LAMBDA r : r.is_active)

\* GET /statarb/pairs, at any time
GetPairs ==
    /\ last_read' = ActiveRows(table)
    /\ read_during' = {s \in Scans : InProgress(s)}
    /\ UNCHANGED <<table, sc_pc, sc_n, sc_len, sc_i, sc_j, sc_p, sc_pending,
                   sc_found, sc_before, sc_alone>>
    /\ UNCHANGED not_sc_vars

ScNext ==
    \/ \E s \in Scans :
         Analyze(s) \/ DeleteAll(s) \/ PrepareData(s) \/ TestPair(s) \/ Commit(s)
    \/ GetPairs

----------------------------------------------------------------------------
(* run_sensitivity_grid: the sweep over entry_z x exit_z.  The service     *)
(* version that holds it is not among the sources (only BacktestRequest's  *)
(* grid fields and SensitivityPoint are); it is modelled from section 4.5  *)
(* of the specification.  Thresholds of a range are counted in halves.     *)

Half(n) == <<n, 2>>

GridSteps == {1, 2}

\* (min, max, step) with entry_z > 0
EntryRanges ==
    { [min |-> a, max |-> b, step |-> s] :
        a \in 1 .. MaxGrid, b \in 1 .. MaxGrid, s \in GridSteps }

\* (min, max, step) with exit_z >= 0
ExitRanges ==
    { [min |-> a, max |-> b, step |-> s] :
        a \in 0 .. MaxGrid, b \in 0 .. MaxGrid, s \in GridSteps }

\* (mutant) the enumeration stops before max
InRangeExclusive(v, r) == v < r.max

\* the enumeration from min by step has not passed max
InRange(v, r) == v <= r.max

\* (mutant) a cell with exit_z = entry_z is run
ValidCellInclusive(e, x) == Le(Half(x), Half(e))

\* a cell is run when exit_z < entry_z
ValidCell(e, x) == Lt(Half(x), Half(e))

\* z-scores of the pair's data: below -entry_z for the smaller entry_z of a
\* range only, and at the mean, above -exit_z exactly when exit_z > 0
GridZ == {Num(-1), Num(0)}

\* the closes (c1, c2) of row t of the pair's data
GridCloses(t) == IF t % 2 = 1 THEN <<2, 1>> ELSE <<1, 1>>

\* the input of the search: the pair's z-score-ready rows, the hedge ratio
\* and a fixed stop_loss_z above every entry_z of a range
GridData ==
    { [z_scores    |-> zs,
       c1          |-> [t \in 1 .. MaxObs |-> GridCloses(t)[1]],
       c2          |-> [t \in 1 .. MaxObs |-> GridCloses(t)[2]],
       hedge_ratio |-> 1,
       stop_loss_z |-> Half(MaxGrid + 1)] : zs \in [1 .. MaxObs -> GridZ] }

\* the thresholds the engine is run with for a cell
CellRequest(e, x, d) ==
    [entry_z |-> Half(e), exit_z |-> Half(x), stop_loss_z |-> d.stop_loss_z]

\* the engine run on the data with given thresholds: the signal loop and
\* the PnL of run_backtest
EngineRun(req, d) ==
    BuildResponse(d.c1, d.c2, d.hedge_ratio, RunLoop(d.z_scores, req))

\* backtest_service.py line 203: the days with a nonzero return
TotalTrades(r) == Cardinality({k \in 1 .. Len(r) : ~Eq(r[k], Num(0))})

\* (mutant) every cell is run with the thresholds of the first cell
SensitivityPointStaleThresholds(e, x, d) ==
    LET run == EngineRun(CellRequest(entry_range.min, exit_range.min, d), d)
    IN  [entry_z      |-> Half(e),
         exit_z       |-> Half(x),
         sharpe_ratio |-> run.metrics.sharpe_ratio,
         total_return |-> run.metrics.total_return,
         win_rate     |-> run.metrics.win_rate,
         trades       |-> TotalTrades(run.strat_ret)]

\* the point recorded for a cell; its metrics are those of the engine run
\* with the cell's thresholds
SensitivityPoint(e, x, d) ==
    LET run == EngineRun(CellRequest(e, x, d), d)
    IN  [entry_z      |-> Half(e),
         exit_z       |-> Half(x),
         sharpe_ratio |-> run.metrics.sharpe_ratio,
         total_return |-> run.metrics.total_return,
         win_rate     |-> run.metrics.win_rate,
         trades       |-> TotalTrades(run.strat_ret)]

GrInit ==
    /\ gr_pc = "idle"
    /\ entry_range = [min |-> 1, max |-> 1, step |-> 1]
    /\ exit_range = [min |-> 0, max |-> 0, step |-> 1]
    /\ gr_entry = 0
    /\ gr_exit = 0
    /\ sensitivity = <<>>
    /\ gr_data = [z_scores |-> <<>>, c1 |-> <<>>, c2 |-> <<>>, hedge_ratio |-> 1,
                  stop_loss_z |-> Num(4)]

\* a request with both ranges arrives
RunGrid ==
    /\ gr_pc = "idle"
    /\ \E er \in EntryRanges, xr \in ExitRanges, d \in GridData :
         /\ entry_range' = er
         /\ exit_range' = xr
         /\ gr_data' = d
         /\ gr_entry' = er.min
         /\ gr_exit' = xr.min
    /\ sensitivity' = <<>>
    /\ gr_pc' = "grid"
    /\ UNCHANGED not_gr_vars

\* one cell (entry_z, exit_z): run and recorded, or skipped
GridCell ==
    /\ gr_pc = "grid"
    /\ InRange(gr_entry, entry_range)
    /\ InRange(gr_exit, exit_range)
    /\ sensitivity' = IF ValidCell(gr_entry, gr_exit)
                      THEN Append(sensitivity,
                                  SensitivityPoint(gr_entry, gr_exit, gr_data))
                      ELSE sensitivity
    /\ gr_exit' = gr_exit + exit_range.step
    /\ UNCHANGED <<gr_pc, entry_range, exit_range, gr_entry, gr_data>>
    /\ UNCHANGED not_gr_vars

\* the exit values are exhausted: the next entry value
NextEntry ==
    /\ gr_pc = "grid"
    /\ InRange(gr_entry, entry_range)
    /\ ~InRange(gr_exit, exit_range)
    /\ gr_entry' = gr_entry + entry_range.step
    /\ gr_exit' = exit_range.min
    /\ UNCHANGED <<gr_pc, entry_range, exit_range, sensitivity, gr_data>>
    /\ UNCHANGED not_gr_vars

\* the entry values are exhausted: the list is returned
GridDone ==
    /\ gr_pc = "grid"
    /\ ~InRange(gr_entry, entry_range)
    /\ gr_pc' = "done"
    /\ UNCHANGED <<entry_range, exit_range, gr_entry, gr_exit, sensitivity,
                   gr_data>>
    /\ UNCHANGED not_gr_vars

GrNext == RunGrid \/ GridCell \/ NextEntry \/ GridDone

----------------------------------------------------------------------------
(* run_backtest called twice: what it reads besides the request.  Dates    *)
(* are day numbers; a ticker has one DailyPrice row per day from its first *)
(* to its last trade_date.  The response is followed by its dates, which   *)
(* the closes, curves and metrics belong to.                               *)

Invocations == {1, 2}

Max0(x) == IF x > 0 THEN x ELSE 0

Larger(x, y) == IF x > y THEN x ELSE y

Smaller(x, y) == IF x < y THEN x ELSE y

\* the stores: each ticker starts on day 1 or 2 and ends on day 50..MaxRows
Stores ==
    [ {1, 2} -> { [first |-> f, last |-> l] :
                    f \in 1 .. 2, l \in MIN_BACKTEST_ROWS .. MaxRows } ]

\* lines 19-25: the rows of a ticker with trade_date >= start
RowsFrom(series, start) == Max0(series.last - Larger(series.first, start) + 1)

\* line 75: the inner join on date of the two fetched series
JoinFirst(st, start) == Larger(Larger(st[1].first, st[2].first), start)

JoinLast(st) == Smaller(st[1].last, st[2].last)

\* lines 65-221 as a function of the request, the store and start_date:
\* the ValueError, the IndexError on an empty frame, or the response's dates
Outcome(req, st, start) ==
    LET joined == Max0(JoinLast(st) - JoinFirst(st, start) + 1)
        kept   == TrimmedHeight(joined, req.lookback_window) - 1
    IN  IF InsufficientSeries(RowsFrom(st[1], start), RowsFrom(st[2], start))
        THEN [kind |-> "value_error", dates |-> <<>>]
        ELSE IF InsufficientOverlap(joined)
        THEN [kind |-> "value_error", dates |-> <<>>]
        ELSE IF kept <= 0
        THEN [kind |-> "internal_error", dates |-> <<>>]
        ELSE [kind |-> "done",
              dates |-> [t \in 1 .. kept |-> JoinLast(st) - kept + t]]

RpInit ==
    /\ stored = [t \in {1, 2} |-> [first |-> 1, last |-> MIN_BACKTEST_ROWS]]
    /\ today = HORIZON_DAYS + 1
    /\ rp_pc = [k \in Invocations |-> "idle"]
    /\ rp_request = [k \in Invocations |-> request]
    /\ start_date = [k \in Invocations |-> 0]
    /\ rp_result = [k \in Invocations |-> [kind |-> "none", dates |-> <<>>]]

\* the price history is ingested before the requests and then left alone
Ingest ==
    /\ \A k \in Invocations : rp_pc[k] = "idle"
    /\ \E st \in Stores : stored' = st
    /\ UNCHANGED <<today, rp_pc, rp_request, start_date, rp_result>>
    /\ UNCHANGED not_rp_vars

\* midnight
Tick ==
    /\ today < HORIZON_DAYS + MaxDays
    /\ today' = today + 1
    /\ UNCHANGED <<stored, rp_pc, rp_request, start_date, rp_result>>
    /\ UNCHANGED not_rp_vars

\* line 63: a request arrives and run_backtest reads the clock
Invoke(k) ==
    /\ rp_pc[k] = "idle"
    /\ \A o \in Invocations : o < k => rp_pc[o] = "returned"
    /\ \E req \in Requests : rp_request' = [rp_request EXCEPT ![k] = req]
    /\ start_date' = [start_date EXCEPT ![k] = today - HORIZON_DAYS]
    /\ rp_pc' = [rp_pc EXCEPT ![k] = "running"]
    /\ UNCHANGED <<stored, today, rp_result>>
    /\ UNCHANGED not_rp_vars

\* lines 65-221, then backtest_pairs returns the response or the error
Return(k) ==
    /\ rp_pc[k] = "running"
    /\ rp_result' = [rp_result EXCEPT
                       ![k] = Outcome(rp_request[k], stored, start_date[k])]
    /\ rp_pc' = [rp_pc EXCEPT ![k] = "returned"]
    /\ UNCHANGED <<stored, today, rp_request, start_date>>
    /\ UNCHANGED not_rp_vars

RpNext == Ingest \/ Tick \/ \E k \in Invocations : Invoke(k) \/ Return(k)

----------------------------------------------------------------------------
(* prepare_data: the aligned matrix of the requested tickers *)

AlSymbols == {1, 2}

AlDates == 1 .. MaxDates

\* no DailyPrice row for that symbol on that date
NoRow == <<0, -2>>

\* a cell of the table: no row, a row whose adjusted_close reads back as
\* NULL, or a row with a price
PriceCells == {NoRow, Null, Num(1), Num(2)}

PriceTables == [AlDates \X AlSymbols -> PriceCells]

\* lines 98-99: the rows of the tickers, ordered by trade_date
RECURSIVE QueryFrom(_, _)
QueryFrom(tbl, d) ==
    IF d > MaxDates THEN <<>>
    ELSE SelectSeq(<<[date |-> d, symbol |-> 1, price |-> tbl[<<d, 1>>]],
                     [date |-> d, symbol |-> 2, price |-> tbl[<<d, 2>>]]>>,
                   LAMBDA r : r.price # NoRow)
         \o QueryFrom(tbl, d + 1)

\* the index of the pivot: the dates in order of first appearance
RECURSIVE PivotIndex(_)
PivotIndex(results) ==
    IF results = <<>> THEN <<>>
    ELSE LET front == PivotIndex(SubSeq(results, 1, Len(results) - 1))
             d     == results[Len(results)].date
         IN  IF \E k \in 1 .. Len(front) : front[k] = d THEN front
             ELSE Append(front, d)

\* line 112: one row per date, one column per symbol that has rows; a
\* (date, symbol) without a row is a null cell
Pivot(results) ==
    LET index   == PivotIndex(results)
        columns == {results[k].symbol : k \in 1 .. Len(results)}
        Cell(d, s) ==
            IF \E k \in 1 .. Len(results) :
                   results[k].date = d /\ results[k].symbol = s
            THEN results[CHOOSE k \in 1 .. Len(results) :
                           results[k].date = d /\ results[k].symbol = s].price
            ELSE Null
    IN  [k \in 1 .. Len(index) |->
            [date |-> index[k], cells |-> [s \in columns |-> Cell(index[k], s)]]]

\* the last non-null cell of column s in the rows 1..k, or null
RECURSIVE LastKnown(_, _, _)
LastKnown(rows, s, k) ==
    IF rows[k].cells[s] # Null THEN rows[k].cells[s]
    ELSE IF k = 1 THEN Null
    ELSE LastKnown(rows, s, k - 1)

\* (mutant) nulls are left as they are
FillNothing(rows) == rows

\* line 115: fill_null(strategy="forward")
FillForward(rows) ==
    [k \in 1 .. Len(rows) |->
        [date |-> rows[k].date,
         cells |-> [s \in DOMAIN rows[k].cells |-> LastKnown(rows, s, k)]]]

\* line 115: drop_nulls()
DropNullRows(rows) ==
    SelectSeq(rows, LAMBDA r : \A s \in DOMAIN r.cells : r.cells[s] # Null)

\* line 117: sort("date"); the dates of the index are distinct
SortByDate(rows) ==
    [k \in 1 .. Len(rows) |->
        rows[CHOOSE n \in 1 .. Len(rows) :
               Cardinality({o \in 1 .. Len(rows) :
                              rows[o].date < rows[n].date}) = k - 1]]

\* lines 95-117
AlignedFrame(tbl) ==
    LET results == QueryFrom(tbl, 1)
    IN  IF results = <<>> THEN <<>>
        ELSE SortByDate(DropNullRows(FillForward(Pivot(results))))

AlInit ==
    /\ al_pc = "idle"
    /\ daily_prices = [c \in AlDates \X AlSymbols |-> NoRow]
    /\ df_pivot = <<>>

\* the price table at the time of the call
SeedPrices ==
    /\ al_pc = "idle"
    /\ \E tbl \in PriceTables : daily_prices' = tbl
    /\ al_pc' = "seeded"
    /\ UNCHANGED df_pivot
    /\ UNCHANGED not_al_vars

\* prepare_data, from the query to the returned frame
AlignPrices ==
    /\ al_pc = "seeded"
    /\ df_pivot' = AlignedFrame(daily_prices)
    /\ al_pc' = "done"
    /\ UNCHANGED daily_prices
    /\ UNCHANGED not_al_vars

AlNext == SeedPrices \/ AlignPrices

----------------------------------------------------------------------------
(* get_spread: the z-score series of a pair *)

\* df.width after prepare_data([ticker1, ticker2]): 0 for the empty frame,
\* else the date column and one column per ticker that has rows
Widths == {0, 2, 3}

\* rows of the aligned frame of two tickers with rows
SpreadRows == {0} \cup ((MIN_SCAN_ROWS - 2) .. (MIN_SCAN_ROWS + 1))

\* spread - mean of the rows: dev on the first row, -dev on the second and
\* 0 on the others (the deviations from the mean add up to 0)
SpreadDevs == (-MaxDev) .. MaxDev

\* np.std(spread): zero exactly when the spread is constant
SpreadStds == {0, 1, 2}

\* line 200: (spread - mean) / std if std > 0 else spread * 0
SpreadZ(dev, std) == IF std > 0 THEN Div(Num(dev), Num(std)) ELSE Num(0)

\* lines 202-207: one point per row
SpreadPoints(n, dev, std) ==
    [k \in 1 .. n |->
        [z_score |-> SpreadZ(IF k = 1 THEN dev ELSE IF k = 2 THEN -dev ELSE 0,
                             std)]]

SpInit ==
    /\ sp_pc = "idle"
    /\ sp_width = 0
    /\ sp_rows = 0
    /\ sp_std = 0
    /\ sp_dev = 0
    /\ sp_data = <<>>

\* lines 185-187: prepare_data, and the early return of [] that get_spread
\* turns into HTTP 404
SpreadPrepare ==
    /\ sp_pc = "idle"
    /\ \E w \in Widths, n \in SpreadRows :
         /\ sp_width' = w
         /\ sp_rows' = IF w = 0 THEN 0 ELSE n
         /\ sp_pc' = IF w < 3 THEN "not_found" ELSE "prepared"
    /\ UNCHANGED <<sp_std, sp_dev, sp_data>>
    /\ UNCHANGED not_sp_vars

\* lines 189-197: calculate_spread_metrics; the OLS fits raise on an empty
\* series and may raise on a degenerate one, which get_spread does not catch
SpreadMetrics ==
    /\ sp_pc = "prepared"
    /\ \E metrics_raise \in MetricsRaise, std \in SpreadStds, dev \in SpreadDevs :
         IF metrics_raise \/ sp_rows = 0
         THEN /\ sp_pc' = "error"
              /\ UNCHANGED <<sp_std, sp_dev>>
         ELSE /\ std = 0 <=> dev = 0
              /\ sp_std' = std
              /\ sp_dev' = dev
              /\ sp_pc' = "metrics"
    /\ UNCHANGED <<sp_width, sp_rows, sp_data>>
    /\ UNCHANGED not_sp_vars

\* lines 199-209, then get_spread: 404 for an empty list, else the list
SpreadRespond ==
    /\ sp_pc = "metrics"
    /\ sp_data' = SpreadPoints(sp_rows, sp_dev, sp_std)
    /\ sp_pc' = IF SpreadPoints(sp_rows, sp_dev, sp_std) = <<>>
                THEN "not_found" ELSE "ok"
    /\ UNCHANGED <<sp_width, sp_rows, sp_std, sp_dev>>
    /\ UNCHANGED not_sp_vars

SpNext == SpreadPrepare \/ SpreadMetrics \/ SpreadRespond

----------------------------------------------------------------------------
(* run_backtest, lines 124-150: the signal loop over a whole z-score list *)

\* thresholds of the requests (the lookback window plays no part in the
\* loop), and two settings BacktestRequest accepts although they are outside
\* the specification's inputs: exit_z > entry_z, and stop_loss_z < entry_z
LoopRequests ==
    {req \in Requests : req.lookback_window = MIN_BACKTEST_ROWS - 1}
        \cup {[entry_z |-> <<1, 2>>, exit_z |-> <<2, 2>>, stop_loss_z |-> <<3, 2>>,
                lookback_window |-> MIN_BACKTEST_ROWS - 1],
               [entry_z |-> <<2, 2>>, exit_z |-> <<0, 8>>, stop_loss_z |-> <<1, 2>>,
                lookback_window |-> MIN_BACKTEST_ROWS - 1]}

\* the z-scores an observation can have
ZValues == {ZScore(in[1], in[2]) : in \in ZInputs}

\* a NaN z-score (constant window) follows a NaN or the z-score of a window
\* with a single older value
Realizable(zs) ==
    \A k \in 2 .. Len(zs) :
        IsNaN(zs[k]) => (IsNaN(zs[k - 1]) \/ zs[k - 1] \in BeforeConstantWindow)

\* line 124: df["z_score"].to_list()
ZSeries ==
    {zs \in UNION {[1 .. n -> ZValues] : n \in 0 .. MaxObs} : Realizable(zs)}

LpInit ==
    /\ lp_pc = "idle"
    /\ lp_request = [entry_z |-> Num(2), exit_z |-> Num(0), stop_loss_z |-> Num(4),
                     lookback_window |-> 30]
    /\ z_scores = <<>>
    /\ lp_i = 0
    /\ lp_position = 0
    /\ lp_signals = <<>>

\* lines 124-131: the list of z-scores, signals = [0] * len(z_scores),
\* position = 0 and the thresholds of the request
LoopBegin ==
    /\ lp_pc = "idle"
    /\ \E req \in LoopRequests, zs \in ZSeries :
         /\ lp_request' = req
         /\ z_scores' = zs
         /\ lp_signals' = [k \in 1 .. Len(zs) |-> 0]
    /\ lp_i' = 0
    /\ lp_position' = 0
    /\ lp_pc' = "loop"
    /\ UNCHANGED not_lp_vars

\* lines 133-148: one iteration, for i in range(len(z_scores))
LoopIteration ==
    /\ lp_pc = "loop"
    /\ lp_i < Len(z_scores)
    /\ lp_position' = NextPosition(lp_position, z_scores[lp_i + 1], lp_request)
    /\ lp_signals' = [lp_signals EXCEPT ![lp_i + 1] =
                         NextPosition(lp_position, z_scores[lp_i + 1], lp_request)]
    /\ lp_i' = lp_i + 1
    /\ UNCHANGED <<lp_pc, lp_request, z_scores>>
    /\ UNCHANGED not_lp_vars

\* line 150: the range is exhausted
LoopEnd ==
    /\ lp_pc = "loop"
    /\ lp_i = Len(z_scores)
    /\ lp_pc' = "done"
    /\ UNCHANGED <<lp_request, z_scores, lp_i, lp_position, lp_signals>>
    /\ UNCHANGED not_lp_vars

LpNext == LoopBegin \/ LoopIteration \/ LoopEnd

----------------------------------------------------------------------------
(* calculate_spread_metrics, called by find_pairs for an accepted pair *)

NoPair == "none"

\* np.log(2), to three decimals
LN2 == <<693, 1000>>

\* slopes of the regression of dz on z_lag: whole numbers and hundredths,
\* of either sign, and zero; the fit of finite series gives a finite slope
\* (stored prices are finite: ingestion rejects a missing close)
Slopes == { <<n, d>> : n \in (-MaxSlope) .. MaxSlope, d \in {1, 100} }

\* (mutant) the sentinel for beta > 0 only
HalfLifeStrictTest(beta) ==
    IF Gt(beta, Num(0)) THEN Num(HALF_LIFE_SENTINEL) ELSE Div(Neg(LN2), beta)

\* lines 74-77
HalfLife(beta) ==
    IF Le(Num(0), beta) THEN Num(HALF_LIFE_SENTINEL) ELSE Div(Neg(LN2), beta)

\* line 85: (spread[-1] - spread_mean) / spread_std if spread_std > 0 else 0.0
LastZScore(dev, std) == IF std > 0 THEN Div(Num(dev), Num(std)) ELSE Num(0)

SmInit ==
    /\ sm_pc = "idle"
    /\ sm_beta = NaN
    /\ sm_half_life = NaN
    /\ sm_pair = NoPair

\* lines 48-72: the two OLS fits; they raise on a degenerate input, else
\* the second one gives the slope beta
FitSpread ==
    /\ sm_pc = "idle"
    /\ \E metrics_raise \in MetricsRaise, beta \in Slopes :
         IF metrics_raise
         THEN /\ sm_pc' = "error"
              /\ UNCHANGED sm_beta
         ELSE /\ sm_pc' = "fitted"
              /\ sm_beta' = beta
    /\ UNCHANGED <<sm_half_life, sm_pair>>
    /\ UNCHANGED not_sm_vars

\* lines 74-77: the branch on beta
HalfLifeBranch ==
    /\ sm_pc = "fitted"
    /\ sm_half_life' = HalfLife(sm_beta)
    /\ sm_pc' = "half_life"
    /\ UNCHANGED <<sm_beta, sm_pair>>
    /\ UNCHANGED not_sm_vars

\* lines 79-93, then find_pairs lines 165-178: the z-score of the last
\* row, the metrics, and the candidate added to the session
EmitCandidate ==
    /\ sm_pc = "half_life"
    /\ \E dev \in SpreadDevs, std \in SpreadStds :
         /\ std = 0 <=> dev = 0
         /\ sm_pair' = [half_life    |-> sm_half_life,
                        last_z_score |-> LastZScore(dev, std)]
    /\ sm_pc' = "emitted"
    /\ UNCHANGED <<sm_beta, sm_half_life>>
    /\ UNCHANGED not_sm_vars

SmNext == FitSpread \/ HalfLifeBranch \/ EmitCandidate

----------------------------------------------------------------------------
(* Specifications *)

Init == BtInit /\ ScInit /\ GrInit /\ RpInit /\ AlInit /\ SpInit /\ LpInit
        /\ SmInit

\* one backtest request
SpecBacktest == Init /\ [][BtNext]_vars

\* scans of the universe and readers of the candidates
SpecScan == Init /\ [][ScNext]_vars

\* one grid search
SpecGrid == Init /\ [][GrNext]_vars

\* two backtest requests, one after the other
SpecRepeat == Init /\ [][RpNext]_vars

\* one call of prepare_data
SpecAlign == Init /\ [][AlNext]_vars

\* one request for the z-score series of a pair
SpecSpread == Init /\ [][SpNext]_vars

\* one run of the signal loop over a z-score list
SpecLoop == Init /\ [][LpNext]_vars

\* the metrics of one accepted pair
SpecMetrics == Init /\ [][SmNext]_vars

----------------------------------------------------------------------------
(* Claims about run_backtest *)

\* same float, NaN included
SameFloat(x, y) == (IsNaN(x) /\ IsNaN(y)) \/ Eq(x, y)

\* C1: after every observation the engine is in exactly one of Flat (0),
\* LongSpread (1), ShortSpread (-1), starting from Flat; an entry happens
\* only from Flat, to LongSpread exactly when z < -entry_z and to
\* ShortSpread exactly when z > entry_z; a step that begins in a position
\* ends in that position or Flat.
C1_EntryOnlyFromFlat ==
    /\ [](position \in {-1, 0, 1} /\ (bt_pc = "loop" /\ i = 0 => position = 0))
    /\ [][i' = i + 1 =>
            /\ signals' = Append(signals, position')
            /\ position = 0 =>
                 /\ position' = 1 <=> Lt(z', Neg(request.entry_z))
                 /\ position' = -1 <=> Gt(z', request.entry_z)
            /\ position = 1 => position' \in {1, 0}
            /\ position = -1 => position' \in {-1, 0}]_vars

\* C1 witness: a short position entered from Flat on a later observation
C1_Witness ==
    /\ bt_pc = "loop"
    /\ Len(signals) >= 2
    /\ signals[Len(signals) - 1] = 0
    /\ position = -1

\* C2: for every observation t > 0 the strategy return of day t is
\* position(t-1) * (spread(t) - spread(t-1)) / (c1(t) + beta * c2(t)); the
\* position decided from z(t) does not enter it.
C2_ReturnUsesYesterdaysPosition ==
    bt_pc = "done" =>
        \A k \in 1 .. Len(response.strat_ret) :
            LET t == response.rows[k]
            IN  /\ t > 1
                /\ SameFloat(response.strat_ret[k],
                             Frac(signals[t - 1]
                                    * ((c1[t] - hedge_ratio * c2[t])
                                       - (c1[t - 1] - hedge_ratio * c2[t - 1])),
                                  c1[t] + hedge_ratio * c2[t]))

\* C2 witness: a day whose position was closed by that day's z-score and
\* that still earned the return of the position held the day before
C2_Witness ==
    /\ bt_pc = "done"
    /\ \E k \in 1 .. Len(response.strat_ret) :
         /\ signals[response.rows[k]] = 0
         /\ signals[response.rows[k] - 1] # 0
         /\ IsFinite(response.strat_ret[k])
         /\ response.strat_ret[k][1] # 0

\* C3 (as claimed): the first observation of every result has strategy
\* return 0 and equity 1.
C3_FirstReturnIsZero ==
    bt_pc = "done" =>
        /\ Eq(response.strat_ret[1], Num(0))
        /\ Eq(response.equity_curve[1], Num(1))

\* C8 (as claimed): no result is returned when fewer than 50 rows remain
\* after alignment and rolling-window trimming.
C8_TrimmedRowsChecked ==
    bt_pc = "done" => height >= MIN_BACKTEST_ROWS

\* C9: with a series of fewer than 50 rows or fewer than 50 common dates the
\* request ends in the ValueError, before any hedge ratio, signal or
\* response exists, and stays there.
C9_InsufficientDataRaises ==
    /\ [][bt_pc = "fetched" /\ bt_pc' # "fetched"
            /\ (df1_height < 50 \/ df2_height < 50 \/ height' < 50)
          => bt_pc' = "value_error"]_vars
    /\ [][bt_pc = "value_error" => bt_pc' = "value_error"]_vars
    /\ [](bt_pc = "value_error" =>
            /\ response = NoResponse
            /\ signals = <<>>
            /\ hedge_ratio = 0
            /\ c1 = <<>> /\ c2 = <<>>)

\* C9 witness: two series of at least 50 rows with 49 common dates, refused
C9_Witness ==
    /\ bt_pc = "value_error"
    /\ df1_height >= 50 /\ df2_height >= 50
    /\ height = 49

\* C10 (as claimed): drawdown[t] <= 0 for every t of every result.
C10_DrawdownNonPositive ==
    bt_pc = "done" =>
        \A t \in 1 .. Len(response.drawdown) : Le(response.drawdown[t], Num(0))

----------------------------------------------------------------------------
(* Claims about find_pairs *)

RowsOf(t) == {t[k] : k \in 1 .. Len(t)}

\* C4: every pair a scan adds, stores or returns has p_value < 0.05, and a
\* tested pair is emitted exactly when its test returned p_value < 0.05.
C4_OnlySignificantPairs ==
    /\ [](/\ \A r \in RowsOf(table) \cup RowsOf(last_read) : r.p_value < 5
          /\ \A s \in Scans : \A r \in RowsOf(sc_pending[s]) : r.p_value < 5)
    /\ [][\A s \in Scans :
            (/\ sc_pc[s] = "loop" /\ sc_pc'[s] = "loop"
             /\ <<sc_i'[s], sc_j'[s]>> # <<sc_i[s], sc_j[s]>>
             /\ sc_len[s] >= MIN_SCAN_ROWS)
            => IF sc_p'[s] < 5
               THEN /\ sc_pending'[s] =
                         Append(sc_pending[s],
                                PairRow(sc_i[s], sc_j[s], sc_p'[s]))
                    /\ sc_found'[s] = sc_found[s] + 1
               ELSE /\ sc_pending'[s] = sc_pending[s]
                    /\ sc_found'[s] = sc_found[s]]_vars

\* C4 witness: a finished scan of three symbols that stored two pairs and
\* rejected the pair whose p-value is the level 0.05 itself
C4_Witness ==
    \E s \in Scans :
        /\ sc_pc[s] = "done"
        /\ sc_n[s] = 3
        /\ sc_p[s] = 5
        /\ sc_found[s] = 2
        /\ Len(table) = 2

\* C5 (as claimed): after a scan has failed, the candidate set stored
\* before it is still stored (no other scan having written meanwhile).
C5_FailedScanKeepsStoredSet ==
    \A s \in Scans :
        sc_pc[s] = "failed" /\ sc_alone[s] => table = sc_before[s]

\* C6 (as claimed): a reader that runs while a scan is in progress observes
\* the complete previous set or the complete new set (no other scan having
\* written meanwhile).
C6_ReadersSeeCompleteSet ==
    \A s \in read_during :
        sc_pc[s] = "done" /\ sc_alone[s] =>
            \/ last_read = ActiveRows(sc_before[s])
            \/ last_read = ActiveRows(table)

\* C7 (as claimed): a numerical failure on one pair does not abort the
\* scan, so no scan ever ends by the exception.
C7_FailureDoesNotAbortScan ==
    \A s \in Scans : sc_pc[s] # "failed"

----------------------------------------------------------------------------
(* Claims about run_sensitivity_grid *)

\* C11: every point of the sensitivity list has exit_z < entry_z, and a
\* cell with exit_z >= entry_z is passed over: it adds no point and the
\* search goes on to the next cell.
C11_NoPointWithExitOutsideEntry ==
    /\ [](\A k \in 1 .. Len(sensitivity) :
            Lt(sensitivity[k].exit_z, sensitivity[k].entry_z))
    /\ [][(/\ gr_pc = "grid"
           /\ gr_entry <= entry_range.max /\ gr_exit <= exit_range.max
           /\ gr_exit >= gr_entry)
          => /\ sensitivity' = sensitivity
             /\ gr_pc' = "grid"
             /\ gr_entry' = gr_entry
             /\ gr_exit' = gr_exit + exit_range.step]_vars

\* C11 witness: a finished search that recorded points and passed over the
\* cells of an exit range reaching beyond the entry range
C11_Witness ==
    /\ gr_pc = "done"
    /\ Len(sensitivity) >= 2
    /\ exit_range.min < entry_range.min
    /\ exit_range.max >= entry_range.max

\* the values min, min + step, ... up to and including max
GridValues(r) == {v \in r.min .. r.max : (v - r.min) % r.step = 0}

\* C12: the returned list holds exactly one point for every combination of
\* an enumerated entry_z and an enumerated exit_z with exit_z < entry_z, and
\* nothing else.
C12_OnePointPerValidCell ==
    gr_pc = "done" =>
        LET cells == { c \in GridValues(entry_range) \X GridValues(exit_range) :
                         c[2] < c[1] }
        IN  /\ \A c \in cells :
                 Cardinality({ k \in 1 .. Len(sensitivity) :
                                 /\ Eq(sensitivity[k].entry_z, <<c[1], 2>>)
                                 /\ Eq(sensitivity[k].exit_z, <<c[2], 2>>) }) = 1
            /\ Len(sensitivity) = Cardinality(cells)

\* C12 witness: a search whose entry range ends exactly on max = 1.5 after
\* a step of 1.0 and that recorded a point at that last value
C12_Witness ==
    /\ gr_pc = "done"
    /\ entry_range = [min |-> 1, max |-> 3, step |-> 2]
    /\ \E k \in 1 .. Len(sensitivity) : sensitivity[k].entry_z = <<3, 2>>

----------------------------------------------------------------------------
(* Claims about repeated requests *)

\* C13 (as claimed): two invocations of run_backtest with the same request
\* and the same stored price history return the same result.
C13_SameInputsSameResult ==
    (/\ rp_pc[1] = "returned" /\ rp_pc[2] = "returned"
     /\ rp_request[1] = rp_request[2])
    => rp_result[1] = rp_result[2]

----------------------------------------------------------------------------
(* Claims about prepare_data *)

\* the symbols with at least one row
Included(tbl) == {s \in AlSymbols : \E d \in AlDates : tbl[<<d, s>>] # NoRow}

HasPrice(tbl, d, s) == tbl[<<d, s>>] # NoRow /\ tbl[<<d, s>>] # Null

\* the dates at or before d on which s has a price
PricedUpTo(tbl, d, s) == {e \in 1 .. d : HasPrice(tbl, e, s)}

\* the latest of a non-empty set of dates
Latest(ds) == CHOOSE e \in ds : \A o \in ds : o <= e

\* C14: the frame prepare_data returns has a column for every symbol with
\* rows and no null cell; each cell is the symbol's price of that date or,
\* in a gap, its most recent earlier price; the dates are those with a row
\* on which every included symbol already has a price (dates before some
\* symbol's first price are dropped), in strictly increasing order.
C14_AlignedMatrixComplete ==
    al_pc = "done" =>
        /\ \A k \in 1 .. Len(df_pivot) :
             /\ DOMAIN df_pivot[k].cells = Included(daily_prices)
             /\ \A s \in Included(daily_prices) :
                  /\ df_pivot[k].cells[s] # Null
                  /\ PricedUpTo(daily_prices, df_pivot[k].date, s) # {}
                  /\ df_pivot[k].cells[s] =
                       daily_prices[<<Latest(PricedUpTo(daily_prices,
                                                        df_pivot[k].date, s)), s>>]
        /\ {df_pivot[k].date : k \in 1 .. Len(df_pivot)} =
             { d \in AlDates :
                 /\ \E s \in AlSymbols : daily_prices[<<d, s>>] # NoRow
                 /\ \A s \in Included(daily_prices) :
                      PricedUpTo(daily_prices, d, s) # {} }
        /\ \A k \in 1 .. Len(df_pivot) - 1 :
             df_pivot[k].date < df_pivot[k + 1].date

\* C14 witness: symbol 2 starts a day late and then misses a day: the first
\* date is dropped and the gap carries the price of the day before
C14_Witness ==
    /\ al_pc = "done"
    /\ daily_prices[<<1, 2>>] = NoRow
    /\ daily_prices[<<2, 2>>] = Num(2)
    /\ daily_prices[<<3, 2>>] = NoRow
    /\ Len(df_pivot) = 2
    /\ df_pivot[1].date = 2
    /\ df_pivot[2].cells[2] = Num(2)

----------------------------------------------------------------------------
(* Claims about the stored candidate set *)

\* C15 (as claimed): when a scan completes, the stored candidates are
\* exactly the pairs that scan accepted, and the count it returns is the
\* number of stored candidates, also when it accepted no pair or found no
\* price data.
C15_ScanReplacesStoredSet ==
    [][\A s \in Scans :
         sc_pc[s] # "done" /\ sc_pc'[s] = "done"
         => /\ table' = sc_pending[s]
            /\ Len(table') = sc_found'[s]]_vars

----------------------------------------------------------------------------
(* Claims about a zero standard deviation *)

\* C16 (as claimed, rolling form): an observation whose rolling std is zero
\* has z = 0 and is evaluated by the position machine as z = 0: a flat
\* engine stays flat and a held position is closed exactly when
\* exit_z > 0 (0 > -exit_z, resp. 0 < exit_z).
C16_ZeroStdEvaluatedAsZero ==
    [][(i' = i + 1 /\ ~IsFinite(z'))
       => position' = IF position = 0 THEN 0
                      ELSE IF Gt(request.exit_z, Num(0)) THEN 0
                      ELSE position]_vars

----------------------------------------------------------------------------
(* Claims about get_spread_series *)

\* C17 (as claimed): when the aligned matrix of the pair has fewer than 30
\* rows, get_spread_series returns no z-score point.
C17_ShortMatrixGivesNoPoints ==
    sp_rows < MIN_SCAN_ROWS => sp_data = <<>> /\ sp_pc # "ok"

----------------------------------------------------------------------------
(* Claims about short pairs *)

\* C18: in a scan whose aligned series have fewer than 30 rows, a step of
\* the loop on a pair runs no cointegration test (no p_value is produced
\* and nothing can raise), emits no candidate and moves on to a later pair;
\* the scan then completes with no pair.
C18_ShortPairsSkipped ==
    /\ [][\A s \in Scans :
            (/\ sc_pc[s] = "loop" /\ sc_len[s] < 30
             /\ sc_i[s] < sc_j[s] /\ sc_j[s] <= sc_n[s]
             /\ <<sc_pc[s], sc_i[s], sc_j[s]>> # <<sc_pc'[s], sc_i'[s], sc_j'[s]>>)
            => /\ sc_pc'[s] = "loop"
               /\ sc_p'[s] = sc_p[s]
               /\ sc_pending'[s] = sc_pending[s]
               /\ sc_found'[s] = sc_found[s]
               /\ \/ sc_i'[s] = sc_i[s] /\ sc_j'[s] = sc_j[s] + 1
                  \/ sc_i'[s] = sc_i[s] + 1 /\ sc_j'[s] = sc_i[s] + 2]_vars
    /\ [](\A s \in Scans :
            sc_pc[s] \in {"loop", "done", "failed"} /\ sc_len[s] < 30
            => /\ sc_pc[s] # "failed"
               /\ sc_p[s] = NoValue
               /\ sc_pending[s] = <<>>
               /\ sc_found[s] = 0)

\* C18 witness: a scan of three symbols with 29 aligned rows that went
\* through its three pairs and completed
C18_Witness ==
    \E s \in Scans :
        /\ sc_pc[s] = "done"
        /\ sc_n[s] = 3
        /\ sc_len[s] = 29
        /\ sc_i[s] = 3
        /\ sc_p[s] = NoValue

----------------------------------------------------------------------------
(* Claims about the metrics *)

\* C19 (as claimed): the metrics of every result contain trade_count, the
\* number of observations with a nonzero strategy return, and win_rate is
\* the number of observations with a return > 0 divided by that count, or 0
\* when the count is 0.
C19_TradeCountInMetrics ==
    bt_pc = "done" =>
        LET nonzero == {k \in 1 .. Len(response.strat_ret) :
                          ~Eq(response.strat_ret[k], Num(0))}
            wins    == {k \in 1 .. Len(response.strat_ret) :
                          Gt(response.strat_ret[k], Num(0))}
        IN  /\ "trade_count" \in DOMAIN response.metrics
            /\ response.metrics.trade_count = Cardinality(nonzero)
            /\ SameFloat(response.metrics.win_rate,
                         IF nonzero = {} THEN Num(0)
                         ELSE Frac(Cardinality(wins), Cardinality(nonzero)))

----------------------------------------------------------------------------
(* Claims about the exit rule *)

\* C20: a step that begins in LongSpread ends in Flat exactly when
\* z > -exit_z or z < -stop_loss_z, a step that begins in ShortSpread ends
\* in Flat exactly when z < exit_z or z > stop_loss_z, and otherwise (also
\* when z equals a threshold) the position is held.
C20_ExitRule ==
    [][i' = i + 1 =>
         /\ position = 1 =>
              IF Gt(z', Neg(request.exit_z)) \/ Lt(z', Neg(request.stop_loss_z))
              THEN position' = 0 ELSE position' = 1
         /\ position = -1 =>
              IF Lt(z', request.exit_z) \/ Gt(z', request.stop_loss_z)
              THEN position' = 0 ELSE position' = -1]_vars

\* C20 witness: a long position held through an observation whose z-score
\* is exactly -stop_loss_z
C20_Witness ==
    /\ bt_pc = "loop"
    /\ Len(signals) >= 2
    /\ signals[Len(signals) - 1] = 1
    /\ position = 1
    /\ Eq(z, Neg(request.stop_loss_z))

----------------------------------------------------------------------------
(* Claims about the signal loop *)

\* C21: the loop makes at most one transition per observation, decided from
\* the position held before the step and z(t) alone: a position entered at
\* step t is not exited at step t even when z(t) is beyond stop_loss_z, a
\* position closed at step t is not re-entered at step t, each iteration
\* reads the next observation and writes its cell of signals only, and the
\* first k signals are those of the loop run on the first k z-scores alone.
C21_OneTransitionPerObservation ==
    /\ [][lp_i' # lp_i =>
            /\ lp_i' = lp_i + 1
            /\ lp_i' <= Len(z_scores)
            /\ lp_signals' = [lp_signals EXCEPT ![lp_i'] = lp_position']
            /\ (lp_position = 0 /\ Lt(z_scores[lp_i'], Neg(lp_request.entry_z)))
                   => lp_position' = 1
            /\ (lp_position = 0 /\ Gt(z_scores[lp_i'], lp_request.entry_z))
                   => lp_position' = -1
            /\ (lp_position = 1 /\ Lt(z_scores[lp_i'], Neg(lp_request.stop_loss_z)))
                   => lp_position' = 0
            /\ (lp_position = -1 /\ Gt(z_scores[lp_i'], lp_request.stop_loss_z))
                   => lp_position' = 0
            /\ lp_position # 0 => lp_position' \in {lp_position, 0}]_vars
    /\ [](lp_pc \in {"loop", "done"} =>
            \A k \in 0 .. lp_i :
                SubSeq(lp_signals, 1, k)
                    = RunLoop(SubSeq(z_scores, 1, k), lp_request))
    /\ [](lp_pc = "done" => lp_i = Len(z_scores))

\* C21 witness: a long position entered at a z-score below -stop_loss_z and
\* kept at that step, then closed by the next z-score below -stop_loss_z
\* and not re-entered at that step
C21_Witness ==
    /\ lp_pc = "done"
    /\ \E t \in 1 .. Len(z_scores) - 1 :
         /\ t > 1 => lp_signals[t - 1] = 0
         /\ Lt(z_scores[t], Neg(lp_request.stop_loss_z))
         /\ lp_signals[t] = 1
         /\ Lt(z_scores[t + 1], Neg(lp_request.stop_loss_z))
         /\ lp_signals[t + 1] = 0

\* C26: the position never goes from LongSpread to ShortSpread or back in
\* one step: after a step that began long the position is long or flat,
\* after one that began short it is short or flat, so in the list of
\* signals two positions of opposite sign are never adjacent, for every
\* z-score series and every threshold setting.
C26_NoDirectFlip ==
    /\ [][(lp_position = 1 => lp_position' \in {1, 0})
          /\ (lp_position = -1 => lp_position' \in {-1, 0})]_vars
    /\ [](\A t \in 1 .. lp_i - 1 : lp_signals[t] * lp_signals[t + 1] # -1)

\* C26 witness: a long position closed by a z-score above entry_z, flat at
\* that observation, and short only at the next one
C26_Witness ==
    /\ lp_pc = "done"
    /\ \E t \in 1 .. Len(z_scores) - 2 :
         /\ lp_signals[t] = 1
         /\ Gt(z_scores[t + 1], lp_request.entry_z)
         /\ lp_signals[t + 1] = 0
         /\ lp_signals[t + 2] = -1

\* C27: a stop-loss exit is followed by no cooldown: when a long position
\* is closed at step t because z(t) < -stop_loss_z and z(t+1) < -entry_z,
\* the position is long again after step t+1 (and likewise short for
\* z(t) > stop_loss_z and z(t+1) > entry_z); with stop_loss_z > entry_z, two
\* consecutive z-scores below -stop_loss_z (above stop_loss_z) make the
\* position alternate between LongSpread (ShortSpread) and Flat.
C27_NoCooldownAfterStopLoss ==
    /\ \A t \in 2 .. lp_i - 1 :
         /\ (/\ lp_signals[t - 1] = 1
             /\ Lt(z_scores[t], Neg(lp_request.stop_loss_z))
             /\ Lt(z_scores[t + 1], Neg(lp_request.entry_z)))
            => (lp_signals[t] = 0 /\ lp_signals[t + 1] = 1)
         /\ (/\ lp_signals[t - 1] = -1
             /\ Gt(z_scores[t], lp_request.stop_loss_z)
             /\ Gt(z_scores[t + 1], lp_request.entry_z))
            => (lp_signals[t] = 0 /\ lp_signals[t + 1] = -1)
    /\ Lt(lp_request.entry_z, lp_request.stop_loss_z) =>
         \A t \in 1 .. lp_i - 1 :
            /\ (/\ Lt(z_scores[t], Neg(lp_request.stop_loss_z))
                /\ Lt(z_scores[t + 1], Neg(lp_request.stop_loss_z)))
               => (lp_signals[t] \in {0, 1} /\ lp_signals[t + 1] = 1 - lp_signals[t])
            /\ (/\ Gt(z_scores[t], lp_request.stop_loss_z)
                /\ Gt(z_scores[t + 1], lp_request.stop_loss_z))
               => (lp_signals[t] \in {0, -1} /\ lp_signals[t + 1] = -1 - lp_signals[t])

\* C27 witness: three consecutive z-scores below -stop_loss_z, with the
\* position long, flat (stopped out), and long again at once
C27_Witness ==
    /\ lp_pc = "done"
    /\ Lt(lp_request.entry_z, lp_request.stop_loss_z)
    /\ \E t \in 1 .. Len(z_scores) - 2 :
         /\ \A k \in t .. t + 2 : Lt(z_scores[k], Neg(lp_request.stop_loss_z))
         /\ lp_signals[t] = 1
         /\ lp_signals[t + 1] = 0
         /\ lp_signals[t + 2] = 1

\* the z-score list with every value negated
Negated(zs) == [k \in 1 .. Len(zs) |-> Neg(zs[k])]

\* C30: for fixed entry_z, exit_z and stop_loss_z the loop run on the
\* negated z-score list gives the negated position at every step:
\* LongSpread and ShortSpread swapped, Flat unchanged.
C30_MirrorSymmetry ==
    lp_pc \in {"loop", "done"} =>
        /\ \A k \in 1 .. lp_i :
             PositionAfter(Negated(z_scores), lp_request, k) = -lp_signals[k]
        /\ lp_pc = "done" =>
             RunLoop(Negated(z_scores), lp_request)
                 = [k \in 1 .. Len(z_scores) |-> -lp_signals[k]]

\* C30 witness: a finished run that was flat at a z-score equal to -entry_z
\* (whose mirror image equals entry_z) and long at a later observation
C30_Witness ==
    /\ lp_pc = "done"
    /\ \E m \in 1 .. Len(z_scores), k \in 1 .. Len(z_scores) :
         /\ m < k
         /\ Eq(z_scores[m], Neg(lp_request.entry_z))
         /\ lp_signals[m] = 0
         /\ lp_signals[k] = 1
         /\ PositionAfter(Negated(z_scores), lp_request, k) = -1

----------------------------------------------------------------------------
(* Claims about the cells of the grid *)

----------------------------------------------------------------------------
(* Claims about the rolling form of the spread model *)

\* C23 (as claimed, for the series get_spread_series returns): with a
\* lookback window W the first W - 1 aligned rows, which have no full
\* trailing window, are absent from the output, so the series of a frame of
\* n rows has n - (W - 1) points, for every window W of 2 rows or more.
C23_RollingWindowTrimsSeries ==
    sp_pc = "ok" =>
        \A w \in 2 .. sp_rows : Len(sp_data) = TrimmedHeight(sp_rows, w)

----------------------------------------------------------------------------
(* Claims about the half-life *)

\* C24: the half-life of every emitted candidate is strictly positive (not
\* zero, negative, infinite below zero or NaN): it is the sentinel 9999 when
\* the slope of dz on the lagged spread is >= 0 and -ln(2)/slope otherwise,
\* and a fitted slope >= 0 leads to the sentinel without raising.
C24_HalfLifePositive ==
    /\ [](sm_pc = "emitted" =>
            /\ Gt(sm_pair.half_life, Num(0))
            /\ Le(Num(0), sm_beta) => Eq(sm_pair.half_life, Num(9999))
            /\ Lt(sm_beta, Num(0)) =>
                 Eq(Mul(sm_pair.half_life, sm_beta), Neg(LN2)))
    /\ [][(sm_pc = "fitted" /\ Le(Num(0), sm_beta))
          => (sm_pc' = "half_life" /\ Eq(sm_half_life', Num(9999)))]_vars

\* C24 witness: a candidate emitted with a slope of exactly zero, which has
\* the sentinel as its half-life
C24_Witness ==
    /\ sm_pc = "emitted"
    /\ Eq(sm_beta, Num(0))
    /\ Eq(sm_pair.half_life, Num(9999))

----------------------------------------------------------------------------
(* Claims about the order of the pairs of a scan *)

\* the pair (a1, a2) comes before the pair (b1, b2) in the order of the loops
PairBefore(a1, a2, b1, b2) == a1 < b1 \/ (a1 = b1 /\ a2 < b2)

\* C25: a scan visits the pairs of columns in the fixed order of the nested
\* loops, each unordered pair at most once: the pair it tests always has
\* i < j, every later pair comes after it in that order, and the candidates
\* of one scan have ticker_1 in an earlier column than ticker_2 and follow
\* one another in that same strict order, so none pairs a symbol with itself
\* and none repeats another one, as (a, b) or as (b, a).
C25_EachPairOnceInOrder ==
    /\ [](\A s \in Scans :
            /\ \A k \in 1 .. Len(sc_pending[s]) :
                 /\ 1 <= sc_pending[s][k].ticker_1
                 /\ sc_pending[s][k].ticker_1 < sc_pending[s][k].ticker_2
                 /\ sc_pending[s][k].ticker_2 <= sc_n[s]
            /\ \A k \in 2 .. Len(sc_pending[s]) :
                 PairBefore(sc_pending[s][k - 1].ticker_1, sc_pending[s][k - 1].ticker_2,
                            sc_pending[s][k].ticker_1, sc_pending[s][k].ticker_2))
    /\ [][\A s \in Scans :
            /\ (sc_pc[s] = "loop" /\ <<sc_i'[s], sc_j'[s]>> # <<sc_i[s], sc_j[s]>>)
                 => PairBefore(sc_i[s], sc_j[s], sc_i'[s], sc_j'[s])
            /\ sc_pending'[s] \notin {sc_pending[s], <<>>}
                 => /\ sc_i[s] < sc_j[s]
                    /\ sc_pending'[s] =
                         Append(sc_pending[s], sc_pending'[s][Len(sc_pending'[s])])
                    /\ sc_pending'[s][Len(sc_pending'[s])].ticker_1 = sc_i[s]
                    /\ sc_pending'[s][Len(sc_pending'[s])].ticker_2 = sc_j[s]]_vars

\* C25 witness: a scan of three symbols that accepted its three pairs
C25_Witness ==
    \E s \in Scans :
        /\ sc_n[s] = 3
        /\ Len(sc_pending[s]) = 3
        /\ sc_pending[s][3].ticker_1 = 2
        /\ sc_pending[s][3].ticker_2 = 3

----------------------------------------------------------------------------
(* Claims about overlapping scans *)

\* C28 (as claimed): once the scans that were started have all completed,
\* in whatever way their steps interleaved, the stored set holds at most
\* one row per (ticker_1, ticker_2) and is the result of one of the scans:
\* it has as many rows as that scan found pairs.
C28_OverlappingScansKeepOneResult ==
    (\A s \in Scans : sc_pc[s] \in {"idle", "done"}) =>
        /\ \A j \in 1 .. Len(table), k \in 1 .. Len(table) :
             j < k => <<table[j].ticker_1, table[j].ticker_2>>
                        # <<table[k].ticker_1, table[k].ticker_2>>
        /\ table # <<>> =>
             \E s \in Scans : sc_pc[s] = "done" /\ Len(table) = sc_found[s]

----------------------------------------------------------------------------
(* Claims about a run that never trades *)

\* C29 (as claimed): if every z-score of the run lay within the entry band
\* (-entry_z <= z(t) <= entry_z), the position is Flat at every step, every
\* strategy return is 0, equity_curve is 1 and drawdown is 0 at every point,
\* and total_return, sharpe_ratio, max_drawdown and win_rate are all 0.
C29_NoEntryNoReturn ==
    (bt_pc = "done" /\ in_band) =>
        /\ \A t \in 1 .. Len(signals) : signals[t] = 0
        /\ \A k \in 1 .. Len(response.strat_ret) :
             /\ Eq(response.strat_ret[k], Num(0))
             /\ Eq(response.equity_curve[k], Num(1))
             /\ Eq(response.drawdown[k], Num(0))
        /\ Eq(response.metrics.total_return, Num(0))
        /\ response.metrics.sharpe_ratio.sign = 0
        /\ Eq(response.metrics.max_drawdown, Num(0))
        /\ Eq(response.metrics.win_rate, Num(0))

====
